---- MODULE Spec2Model ----
(***************************************************************************)
(* Model of the carousel controller of the 3D model viewer (Scene.jsx).    *)
(*                                                                         *)
(* Scene holds three pieces of React state: currentModelIndex, isLoading   *)
(* and key (the Canvas key).  The spec calls them activeIndex,             *)
(* isAssetReady (= ~isLoading) and generation.  The click handlers         *)
(* nextModel, previousModel and selectModel change them; the Model         *)
(* component, mounted inside the Canvas, calls onLoad (= handleModelLoad)  *)
(* from a passive effect once useLoader has produced the gltf.             *)
(*                                                                         *)
(* A passive effect runs some time after the render that scheduled it, so  *)
(* a scheduled-but-not-yet-run effect is a callback in flight.  The        *)
(* variable pending holds these, each tagged with the Canvas key and the   *)
(* catalog index of the Model that scheduled it.                           *)
(***************************************************************************)
EXTENDS Integers, Sequences, FiniteSets, TLC

\* models.length: the catalog has five entries
NumModels == 5

\* cap on the Canvas key, to keep the state space finite
MaxKey == 3

VARIABLES
    currentModelIndex,  \* useState(0)
    isLoading,          \* useState(true)
    key,                \* useState(0)
    model,              \* the Model mounted in the current Canvas
    pending,            \* Model effects scheduled and not yet run
    last,               \* the most recent call of a handler or of onLoad
    before,             \* the call before that
    lastAccepted,       \* the most recent accepted transition
    beforeAccepted,     \* the accepted transition before that
    loadCalls,          \* per Canvas key: onLoad calls made by its Model
    script              \* how far the calls so far follow Scenario, or -1

vars == <<currentModelIndex, isLoading, key, model, pending,
          last, before, lastAccepted, beforeAccepted, loadCalls, script>>

\* the Scene state as the spec's triple (activeIndex, isLoading, generation)
ViewerState == [idx |-> currentModelIndex, loading |-> isLoading, key |-> key]

NoCall == [op |-> "none", arg |-> -1, gen |-> -1,
           pre |-> [idx |-> 0, loading |-> TRUE, key |-> 0]]

\* the record of a call made in the current state
Call(op, arg, gen) == [op |-> op, arg |-> arg, gen |-> gen, pre |-> ViewerState]

\* The calls of the spec's concrete scenario (section 8), from mount:
\* notifyAssetLoaded, selectNext, notifyAssetLoaded, selectIndex(4),
\* selectPrevious, notifyAssetLoaded, selectPrevious.
Scenario ==
    << [op |-> "handleModelLoad", arg |-> -1],
       [op |-> "nextModel",       arg |-> -1],
       [op |-> "handleModelLoad", arg |-> -1],
       [op |-> "selectModel",     arg |-> 4],
       [op |-> "previousModel",   arg |-> -1],
       [op |-> "handleModelLoad", arg |-> -1],
       [op |-> "previousModel",   arg |-> -1] >>

\* script after one more call: one further along Scenario when the call is
\* the next one of Scenario, off it (-1) otherwise
Follow(call) ==
    IF /\ script >= 0
       /\ script < Len(Scenario)
       /\ Scenario[script + 1].op = call.op
       /\ call.op = "selectModel" => Scenario[script + 1].arg = call.arg
    THEN script + 1
    ELSE -1

\* JavaScript's % : the result takes the sign of the dividend
JsMod(a, b) == IF a >= 0 THEN a % b ELSE -((-a) % b)

\* (prev) => (prev + 1) % models.length
NextIndexNoWrap(prev) == prev + 1
NextIndex(prev) == JsMod(prev + 1, NumModels)

\* (prev) => (prev - 1 + models.length) % models.length
PrevIndexNoOffset(prev) == JsMod(prev - 1, NumModels)
PrevIndexForward(prev) == JsMod(prev + 1 + NumModels, NumModels)
PrevIndex(prev) == JsMod(prev - 1 + NumModels, NumModels)

\* (prev) => prev + 1, the updater of setKey
IncKeyTwice(prev) == prev + 2
IncKey(prev) == prev + 1

\* if (!isLoading), the guard of nextModel and previousModel
CanNavigateAlways == TRUE
CanNavigate == ~isLoading

\* if (!isLoading && index !== currentModelIndex), the guard of selectModel
CanSelectAnyIndex(index) == ~isLoading
CanSelectOnlyForward(index) == ~isLoading /\ index > currentModelIndex
CanSelect(index) == ~isLoading /\ index # currentModelIndex

\* Transition without setCurrentModelIndex
TransitionKeepIndex(newIndex, call) ==
    /\ key < MaxKey
    /\ isLoading' = TRUE
    /\ currentModelIndex' = currentModelIndex
    /\ key' = IncKey(key)
    /\ model' = [gen |-> IncKey(key), path |-> newIndex, gltf |-> FALSE]
    /\ pending' = pending
    /\ last' = call
    /\ before' = last
    /\ lastAccepted' = call
    /\ beforeAccepted' = lastAccepted
    /\ loadCalls' = loadCalls @@ (IncKey(key) :> 0)
    /\ script' = Follow(call)
\* The body shared by the three handlers once their guard has passed:
\* setIsLoading(true); setCurrentModelIndex(..); setKey(prev => prev + 1).
\* The new key re-mounts the Canvas: the old Model is unmounted (an effect
\* it had scheduled stays in flight) and a new Model is mounted for the new
\* path, suspended in useLoader.
Transition(newIndex, call) ==
    /\ key < MaxKey
    /\ isLoading' = TRUE
    /\ currentModelIndex' = newIndex
    /\ key' = IncKey(key)
    /\ model' = [gen |-> IncKey(key), path |-> newIndex, gltf |-> FALSE]
    /\ pending' = pending
    /\ last' = call
    /\ before' = last
    /\ lastAccepted' = call
    /\ beforeAccepted' = lastAccepted
    /\ loadCalls' = loadCalls @@ (IncKey(key) :> 0)
    /\ script' = Follow(call)

\* A handler whose guard failed: no state is set, nothing re-renders.
Rejected(call) ==
    /\ last' = call
    /\ before' = last
    /\ script' = Follow(call)
    /\ UNCHANGED <<currentModelIndex, isLoading, key, model, pending,
                   lastAccepted, beforeAccepted, loadCalls>>

nextModel ==
    LET call == Call("nextModel", -1, -1) IN
    IF CanNavigate
    THEN Transition(NextIndex(currentModelIndex), call)
    ELSE Rejected(call)

previousModel ==
    LET call == Call("previousModel", -1, -1) IN
    IF CanNavigate
    THEN Transition(PrevIndex(currentModelIndex), call)
    ELSE Rejected(call)

\* index is produced by the dot and thumbnail buttons: models.map((_, index) ..)
selectModel(index) ==
    LET call == Call("selectModel", index, -1) IN
    IF CanSelect(index)
    THEN Transition(index, call)
    ELSE Rejected(call)

\* useLoader(GLTFLoader, modelPath) produces the gltf: the Model renders and
\* its effect is scheduled.
LoaderResolve ==
    /\ ~model.gltf
    /\ model' = [model EXCEPT !.gltf = TRUE]
    /\ pending' = pending \cup {[gen |-> model.gen, path |-> model.path]}
    /\ UNCHANGED <<currentModelIndex, isLoading, key,
                   last, before, lastAccepted, beforeAccepted,
                   loadCalls, script>>

\* handleModelLoad flipping the flag instead of clearing it
handleModelLoadToggle(cb) ==
    /\ isLoading' = ~isLoading
    /\ pending' = (pending \ {cb}) \cup
                  (IF isLoading /\ model.gltf
                   THEN {[gen |-> model.gen, path |-> model.path]}
                   ELSE {})
    /\ last' = Call("handleModelLoad", cb.path, cb.gen)
    /\ before' = last
    /\ loadCalls' = [loadCalls EXCEPT ![cb.gen] = @ + 1]
    /\ script' = Follow(Call("handleModelLoad", cb.path, cb.gen))
    /\ UNCHANGED <<currentModelIndex, key, model, lastAccepted, beforeAccepted>>
\* handleModelLoad: setIsLoading(false).  When that changes the state Scene
\* re-renders and passes a new handleModelLoad as onLoad, so the effect of
\* the mounted Model (deps [gltf, onLoad]) is scheduled again.
handleModelLoad(cb) ==
    /\ isLoading' = FALSE
    /\ pending' = (pending \ {cb}) \cup
                  (IF isLoading /\ model.gltf
                   THEN {[gen |-> model.gen, path |-> model.path]}
                   ELSE {})
    /\ last' = Call("handleModelLoad", cb.path, cb.gen)
    /\ before' = last
    /\ loadCalls' = [loadCalls EXCEPT ![cb.gen] = @ + 1]
    /\ script' = Follow(Call("handleModelLoad", cb.path, cb.gen))
    /\ UNCHANGED <<currentModelIndex, key, model, lastAccepted, beforeAccepted>>

\* The effect of a Model runs: if (gltf) onLoad().
ModelEffect == \E cb \in pending : handleModelLoad(cb)

Init ==
    /\ currentModelIndex = 0
    /\ isLoading = TRUE
    /\ key = 0
    /\ model = [gen |-> 0, path |-> 0, gltf |-> FALSE]
    /\ pending = {}
    /\ last = NoCall
    /\ before = NoCall
    /\ lastAccepted = NoCall
    /\ beforeAccepted = NoCall
    /\ loadCalls = (0 :> 0)
    /\ script = 0

Next ==
    \/ nextModel
    \/ previousModel
    \/ \E index \in 0 .. NumModels - 1 : selectModel(index)
    \/ LoaderResolve
    \/ ModelEffect

Spec == Init /\ [][Next]_vars

\* disabled={isLoading} of the left and right NavigationButton, of the dot
\* buttons and of the thumbnail buttons
LeftButtonDisabled == isLoading
RightButtonDisabled == isLoading
DotDisabled(index) == isLoading
ThumbnailNeverDisabled(index) == FALSE
ThumbnailDisabled(index) == isLoading

\* A click on a button: a disabled button dispatches no click, an enabled one
\* calls its onClick.
ClickLeft == ~LeftButtonDisabled /\ previousModel
ClickRight == ~RightButtonDisabled /\ nextModel
ClickDot(index) == ~DotDisabled(index) /\ selectModel(index)
ClickThumbnail(index) == ~ThumbnailDisabled(index) /\ selectModel(index)

\* The viewer driven through its rendered controls only.
UINext ==
    \/ ClickLeft
    \/ ClickRight
    \/ \E index \in 0 .. NumModels - 1 : ClickDot(index)
    \/ \E index \in 0 .. NumModels - 1 : ClickThumbnail(index)
    \/ LoaderResolve
    \/ ModelEffect

UISpec == Init /\ [][UINext]_vars

\* The Renderer does its part: a load that was started completes, and a
\* scheduled effect runs.
RendererFairness == WF_vars(LoaderResolve) /\ WF_vars(ModelEffect)

FairUISpec == UISpec /\ RendererFairness

----------------------------------------------------------------------------
\* Vocabulary of the claims, over the recorded calls.

LastIndex == NumModels - 1

IsTransitionCall(c) == c.op \in {"nextModel", "previousModel", "selectModel"}

\* the state did not change since the state the last call was made in
StateUnchanged == ViewerState = last.pre

\* the last call was a transition whose guard passed
LastWasAccepted ==
    /\ IsTransitionCall(last)
    /\ ~last.pre.loading
    /\ last.op = "selectModel" => last.arg # last.pre.idx

\* the last call was a transition whose guard failed
LastWasRejected == IsTransitionCall(last) /\ ~LastWasAccepted

\* the last call was onLoad, scheduled by a Model of an earlier Canvas key
LastWasStaleLoad == last.op = "handleModelLoad" /\ last.gen < last.pre.key

----------------------------------------------------------------------------
\* C1: a transition handler called while isLoading is true leaves
\* currentModelIndex, isLoading and key as they were.
C1_RejectedWhileLoading ==
    (IsTransitionCall(last) /\ last.pre.loading) => StateUnchanged

\* each of the three handlers has been called while loading, selectModel
\* with an index other than the current one
C1_Witness ==
    /\ last.op = "selectModel" /\ last.pre.loading /\ last.arg # last.pre.idx
    /\ before.op \in {"nextModel", "previousModel"} /\ before.pre.loading

\* C2: nextModel called while not loading moves to the next index, wrapping
\* from the last index to 0, sets isLoading and adds one to key.
C2_SelectNext ==
    (last.op = "nextModel" /\ ~last.pre.loading) =>
        /\ currentModelIndex =
               (IF last.pre.idx = LastIndex THEN 0 ELSE last.pre.idx + 1)
        /\ isLoading
        /\ key = last.pre.key + 1

C2_Witness ==
    /\ last.op = "nextModel" /\ ~last.pre.loading
    /\ last.pre.idx = LastIndex /\ currentModelIndex = 0

\* C3: previousModel called while not loading moves to the previous index,
\* wrapping from 0 to the last index, sets isLoading and adds one to key.
C3_SelectPrevious ==
    (last.op = "previousModel" /\ ~last.pre.loading) =>
        /\ currentModelIndex =
               (IF last.pre.idx = 0 THEN LastIndex ELSE last.pre.idx - 1)
        /\ currentModelIndex >= 0
        /\ isLoading
        /\ key = last.pre.key + 1

C3_Witness ==
    /\ last.op = "previousModel" /\ ~last.pre.loading
    /\ last.pre.idx = 0 /\ currentModelIndex = LastIndex

\* C4: selectModel(i) called while not loading, with i in range: for i other
\* than the current index it sets the index to i, sets isLoading and adds one
\* to key; for i the current index it changes nothing.
C4_SelectIndex ==
    (last.op = "selectModel" /\ ~last.pre.loading) =>
        IF last.arg # last.pre.idx
        THEN /\ currentModelIndex = last.arg
             /\ isLoading
             /\ key = last.pre.key + 1
        ELSE StateUnchanged /\ ~isLoading /\ model.gen = last.pre.key

\* selectModel of the current index has been called while not loading
C4_Witness ==
    /\ last.op = "selectModel" /\ ~last.pre.loading
    /\ last.arg = last.pre.idx

\* selectModel of another index has been called while not loading
C4_WitnessAccepted ==
    /\ last.op = "selectModel" /\ ~last.pre.loading
    /\ last.arg # last.pre.idx

\* C5: an onLoad call scheduled by the Model of an earlier Canvas key does
\* not clear isLoading for the current key.
C5_StaleLoadIgnored ==
    (LastWasStaleLoad /\ last.pre.loading) => isLoading

\* C6: key grows by exactly one on an accepted transition and is left alone
\* by a rejected transition call and by onLoad; it never decreases.
C6_GenerationStep ==
    /\ LastWasAccepted => key = last.pre.key + 1
    /\ LastWasRejected => key = last.pre.key
    /\ last.op = "handleModelLoad" => key = last.pre.key
    /\ key >= last.pre.key

C6_NeverDecreases == [][key' >= key]_vars

\* an accepted transition, a rejected one and an onLoad call have each been
\* seen at a key above 0
C6_Witness ==
    /\ key > 1
    /\ LastWasRejected
    /\ before.op = "handleModelLoad"
    /\ IsTransitionCall(lastAccepted)

\* C7: currentModelIndex is always a valid index into models.
C7_IndexInRange == currentModelIndex \in 0 .. LastIndex

\* both wrap-arounds have been taken, one after the other
C7_Witness ==
    /\ lastAccepted.op = "nextModel" /\ lastAccepted.pre.idx = LastIndex
    /\ beforeAccepted.op = "previousModel" /\ beforeAccepted.pre.idx = 0

\* C8: isLoading is true right after a step that changes currentModelIndex,
\* and it goes from true to false only by an onLoad call of the Model that
\* shows the current index in the current Canvas.
C8_ReadyOnlyByCurrentLoad ==
    /\ currentModelIndex # last.pre.idx => isLoading
    /\ (last.pre.loading /\ ~isLoading) =>
           /\ last.op = "handleModelLoad"
           /\ last.arg = currentModelIndex
           /\ last.gen = key

\* C9: nextModel and then previousModel, both accepted, bring
\* currentModelIndex back to where it was.
C9_NextThenPrevious ==
    (lastAccepted.op = "previousModel" /\ beforeAccepted.op = "nextModel") =>
        currentModelIndex = beforeAccepted.pre.idx

\* the round trip from the last index, through 0
C9_Witness ==
    /\ lastAccepted.op = "previousModel" /\ beforeAccepted.op = "nextModel"
    /\ beforeAccepted.pre.idx = LastIndex
    /\ lastAccepted.pre.idx = 0
    /\ ~isLoading

\* the round trip from index 0
C9_WitnessFromZero ==
    /\ lastAccepted.op = "previousModel" /\ beforeAccepted.op = "nextModel"
    /\ beforeAccepted.pre.idx = 0

\* C10 as stated: selectModel(i) and then onLoad leave isLoading false and
\* currentModelIndex = i, whatever the state selectModel was called in.
C10_SelectThenLoad_Original ==
    (last.op = "handleModelLoad" /\ before.op = "selectModel") =>
        ~isLoading /\ currentModelIndex = before.arg

\* C10 amended: selectModel(i) called while not loading, and then onLoad,
\* leave isLoading false and currentModelIndex = i.
C10_SelectThenLoad ==
    (last.op = "handleModelLoad" /\ before.op = "selectModel"
         /\ ~before.pre.loading) =>
        ~isLoading /\ currentModelIndex = before.arg

C10_Witness ==
    /\ last.op = "handleModelLoad" /\ before.op = "selectModel"
    /\ ~before.pre.loading /\ before.arg # before.pre.idx
    /\ last.gen = key

----------------------------------------------------------------------------
\* Vocabulary of the later claims.

\* the Canvas keys whose Model has not called onLoad
Awaiting == {g \in DOMAIN loadCalls : loadCalls[g] = 0}

\* the states of the spec's concrete scenario, after each call of Scenario
Expected ==
    << [idx |-> 0, loading |-> FALSE, key |-> 0],
       [idx |-> 1, loading |-> TRUE,  key |-> 1],
       [idx |-> 1, loading |-> FALSE, key |-> 1],
       [idx |-> 4, loading |-> TRUE,  key |-> 2],
       [idx |-> 4, loading |-> TRUE,  key |-> 2],
       [idx |-> 4, loading |-> FALSE, key |-> 2],
       [idx |-> 3, loading |-> TRUE,  key |-> 3] >>

\* C11: the Model of each Canvas key calls onLoad once, not more.
C11_LoadOncePerKey == \A g \in DOMAIN loadCalls : loadCalls[g] <= 1

\* C12: at most one accepted selection is waiting for the onLoad call of
\* its Model.
C12_OneLoadInFlight == Cardinality(Awaiting \ {0}) <= 1

\* C13: as long as the Model of the current Canvas key has not called
\* onLoad, isLoading stays true and a transition call made under this key
\* changes nothing.
C13_StuckWithoutLoad ==
    key \in Awaiting =>
        /\ isLoading
        /\ (IsTransitionCall(last) /\ last.pre.key = key) => StateUnchanged

\* C14: from mount (0, loading, 0), the calls of Scenario give the states
\* of Expected, one after the other.
C14_Scenario ==
    /\ script = 0 => ViewerState = [idx |-> 0, loading |-> TRUE, key |-> 0]
    /\ script >= 1 => ViewerState = Expected[script]

\* the whole scenario has been played
C14_Witness == script = Len(Scenario) /\ last.op = "previousModel"

\* C15: every control is disabled exactly when isLoading is true, so the
\* controls produce no transition call while isLoading is true.
C15_ControlsDisabled ==
    /\ LeftButtonDisabled = isLoading
    /\ RightButtonDisabled = isLoading
    /\ \A index \in 0 .. LastIndex :
           DotDisabled(index) = isLoading /\ ThumbnailDisabled(index) = isLoading
    /\ IsTransitionCall(last) => ~last.pre.loading

\* a click was accepted and the controls are now disabled
C15_Witness ==
    /\ LastWasAccepted /\ isLoading
    /\ LeftButtonDisabled /\ RightButtonDisabled
    /\ DotDisabled(0) /\ ThumbnailDisabled(LastIndex)

\* C16: a step changes currentModelIndex exactly when it changes key.
C16_RemountIffIndexChange ==
    (currentModelIndex # last.pre.idx) <=> (key # last.pre.key)

\* selectModel of another index has changed both
C16_Witness ==
    /\ last.op = "selectModel"
    /\ currentModelIndex # last.pre.idx /\ key # last.pre.key

\* C17: handleModelLoad leaves isLoading false and leaves currentModelIndex
\* and key alone; called when isLoading is already false it changes nothing.
C17_LoadSetsReady ==
    last.op = "handleModelLoad" =>
        /\ ~isLoading
        /\ currentModelIndex = last.pre.idx
        /\ key = last.pre.key
        /\ ~last.pre.loading => StateUnchanged

\* onLoad has been called twice in a row, the second time with isLoading false
C17_Witness ==
    /\ last.op = "handleModelLoad" /\ ~last.pre.loading
    /\ before.op = "handleModelLoad" /\ before.pre.loading

\* C18: with the Renderer doing its part, isLoading always becomes false
\* again, and whenever it is false every other index can be selected (as
\* long as the model's cap on key allows another transition).
C18_NeverStuck ==
    /\ isLoading ~> ~isLoading
    /\ [](~isLoading /\ key < MaxKey =>
            \A index \in (0 .. LastIndex) \ {currentModelIndex} :
                ENABLED (ClickDot(index) /\ currentModelIndex' = index))

\* a load started by a click has completed and the controls are enabled again
C18_Witness ==
    /\ ~isLoading /\ key > 0 /\ key \notin Awaiting
    /\ ~LeftButtonDisabled
====
